---- MODULE Spec2Model ----
(***************************************************************************)
(* A model of flair's DualEncoder (src/flair/models/dual_encoder.py):      *)
(* label-space construction, the scorer (forward / forward_loss) and       *)
(* predict, the state dictionary, and of get_corpus                        *)
(* (src/local_corpora.py).  Strings are sequences of one-character strings, so that       *)
(* upper(), startswith() and split("-") are computed, not assumed.         *)
(* Dictionary indices are 0-based, as in the code.                         *)
(***************************************************************************)
EXTENDS Integers, Sequences, FiniteSets, TLC

VARIABLES given, model, sentences, ret, scored, decode, gold_labels, reloaded, corpus

vars == <<given, model, sentences, ret, scored, decode, gold_labels, reloaded, corpus>>

----------------------------------------------------------------------------
(* Bounds of the model *)

\* longest tag dictionary handed to the constructor (items besides <unk>)
MaxLabels == 2
\* most sentences in one call of forward_loss / forward / predict
MaxSentences == 2
\* most tokens in one sentence
MaxTokens == 2
\* longest tag sequence handed to get_spans_from_bio
MaxTags == 5
\* most sentences in the train split get_corpus filters
MaxTrain == 3
\* most tokens of a sentence handed to _get_gold_labels alone
MaxGoldTokens == 4
\* most gold spans of such a sentence
MaxGoldSpans == 2

----------------------------------------------------------------------------
(* Strings *)

RECURSIVE SeqToSet(_)
SeqToSet(s) == IF s = <<>> THEN {} ELSE {Head(s)} \cup SeqToSet(Tail(s))

\* the injective sequences over S of length at most n
InjSeqs(S, n) ==
  UNION { { s \in [1..k -> S] : \A i, j \in 1..k : i # j => s[i] # s[j] } : k \in 0..n }

\* the sequences over S of length lo..hi
SeqsOf(S, lo, hi) == UNION { [1..k -> S] : k \in lo..hi }

UpperChar(c) ==
  CASE c = "b" -> "B"
    [] c = "i" -> "I"
    [] c = "o" -> "O"
    [] c = "e" -> "E"
    [] c = "s" -> "S"
    [] OTHER -> c

\* str.upper()
Upper(s) == [i \in DOMAIN s |-> UpperChar(s[i])]

\* str.startswith(p)
StartsWith(s, p) == Len(s) >= Len(p) /\ SubSeq(s, 1, Len(p)) = p

\* position of the first occurrence of character c in s, 0 when absent
RECURSIVE FindChar(_, _, _)
FindChar(s, c, i) ==
  IF i > Len(s) THEN 0
  ELSE IF s[i] = c THEN i
  ELSE FindChar(s, c, i + 1)

\* str.split(c): the pieces between the occurrences of c
RECURSIVE Split(_, _)
Split(s, c) ==
  LET p == FindChar(s, c, 1) IN
    IF p = 0 THEN <<s>>
    ELSE <<SubSeq(s, 1, p - 1)>> \o Split(SubSeq(s, p + 1, Len(s)), c)

str_O == <<"O">>
str_underscore == <<"_">>
str_unk == <<"<", "u", "n", "k", ">">>
str_X == <<"X">>
str_Y == <<"Y">>
str_hyphenated == <<"a", "-", "b">>
str_spaced == <<"a", " ", "b">>
pre_B == <<"B", "-">>
pre_I == <<"I", "-">>
pre_S == <<"S", "-">>
pre_E == <<"E", "-">>
word_other == <<"o", "t", "h", "e", "r">>
word_begin == <<"b", "e", "g", "i", "n", " ">>
word_inside == <<"i", "n", "s", "i", "d", "e", " ">>
fmt_BIO == <<"B", "I", "O">>
fmt_BIOES == <<"B", "I", "O", "E", "S">>
fmt_bio_lower == <<"b", "i", "o">>
fmt_bioes_mixed == <<"B", "i", "o", "e", "s">>
fmt_IOB == <<"I", "O", "B">>

----------------------------------------------------------------------------
(* flair.data.Dictionary: an ordered list of distinct items, the index of  *)
(* an item being its position minus one; add_unk puts "<unk>" at index 0.  *)

\* Dictionary(add_unk=...)
NewDictionary(add_unk) ==
  [items |-> IF add_unk THEN <<str_unk>> ELSE <<>>,
   add_unk |-> add_unk,
   span_labels |-> FALSE]

\* Dictionary.add_item: appends the item unless it is already there
add_item(d, item) ==
  IF item \in SeqToSet(d.items) THEN d
  ELSE [d EXCEPT !.items = Append(d.items, item)]

\* Dictionary.get_items
get_items(d) == d.items

\* len(dictionary)
DictLen(d) == Len(d.items)

\* Dictionary.item2idx: the index of an item that is in the dictionary
item2idx(d, item) == CHOOSE i \in 0..(Len(d.items) - 1) : d.items[i + 1] = item

\* Dictionary.get_item_for_index
get_item_for_index(d, idx) == d.items[idx + 1]

HasItem(d, item) == item \in SeqToSet(d.items)

----------------------------------------------------------------------------
(* DualEncoder.__init__ and _init_verbalizers_and_tag_dictionary *)

\* lines 53-64: one pass of the loop over the items of the tag dictionary
ExpandLabel(d, label, tag_format) ==
  IF label = str_unk THEN d
  ELSE
    LET d0 == add_item(d, str_O)
        d1 == IF tag_format = fmt_BIOES
              THEN add_item(add_item(add_item(add_item(d0,
                     pre_S \o label), pre_B \o label), pre_E \o label), pre_I \o label)
              ELSE d0
    IN IF tag_format = fmt_BIO
       THEN add_item(add_item(d1, pre_B \o label), pre_I \o label)
       ELSE d1

\* lines 51-64: the loop, over the items in dictionary order
RECURSIVE ExpandAll(_, _, _)
ExpandAll(d, labels, tag_format) ==
  IF labels = <<>> THEN d
  ELSE ExpandAll(ExpandLabel(d, Head(labels), tag_format), Tail(labels), tag_format)

\* lines 74-79: the phrase of one tag; <<>> when the tag gets none
Verbalize(label) ==
  IF label = str_O THEN word_other
  ELSE IF StartsWith(label, pre_B) THEN word_begin \o Split(label, "-")[2]
  ELSE IF StartsWith(label, pre_I) THEN word_inside \o Split(label, "-")[2]
  ELSE <<>>

\* lines 71-79: idx2verbalized_label, in insertion order, as (idx, phrase) pairs
RECURSIVE VerbalizeFrom(_, _)
VerbalizeFrom(items, idx) ==
  IF items = <<>> THEN <<>>
  ELSE LET v == Verbalize(Head(items))
           rest == VerbalizeFrom(Tail(items), idx + 1)
       IN IF v = <<>> THEN rest ELSE <<[idx |-> idx, phrase |-> v]>> \o rest

NoDictionary == NewDictionary(FALSE)

NoModel ==
  [status |-> "none", tag_format |-> <<>>, label_dictionary |-> NoDictionary,
   predict_spans |-> FALSE, idx2verbalized_label |-> <<>>, tagset_size |-> 0,
   tag_type |-> "ner"]

\* the outcome of a constructor call that raised (the assert of line 52)
Rejected == [NoModel EXCEPT !.status = "rejected"]

\* line 52: assert self.tag_format in ["BIOES", "BIO"], reached for span-level
\* dictionaries only (line 47)
FormatAsserted(tag_dictionary, tag_format) ==
  tag_dictionary.span_labels => tag_format \in {fmt_BIOES, fmt_BIO}

\* __init__ (lines 32-34) with _init_verbalizers_and_tag_dictionary (46-81)
DualEncoderInit(tag_dictionary, tag_type, tag_format_arg) ==
  LET tag_format == Upper(tag_format_arg)
      label_dictionary ==
        IF tag_dictionary.span_labels
        THEN ExpandAll(NewDictionary(FALSE), get_items(tag_dictionary), tag_format)
        ELSE tag_dictionary
  IN IF ~FormatAsserted(tag_dictionary, tag_format) THEN Rejected
     ELSE [status |-> "ok",
           tag_format |-> tag_format,
           label_dictionary |-> label_dictionary,
           predict_spans |-> tag_dictionary.span_labels,
           idx2verbalized_label |-> VerbalizeFrom(label_dictionary.items, 0),
           tagset_size |-> DictLen(label_dictionary),
           tag_type |-> tag_type]


----------------------------------------------------------------------------
(* Sentences.  A sentence is its token count and, per label type, the      *)
(* labels attached to it in the order they were added; a label covers the  *)
(* tokens first..last (1-based, as Token.idx) and carries a value and a    *)
(* score.  A token-level label has first = last.  A score is a fraction    *)
(* num/den of percent points, so that a mean of token scores is exact.     *)

LabelTypes == {"ner", "predicted"}

\* the confidence levels the scorer's soft-max is sampled at, in percent
ScoreLevels == {50, 100}

GoldScore == [num |-> 100, den |-> 1]

NewLabel(first, last, value, score) ==
  [first |-> first, last |-> last, value |-> value, score |-> score]

NewSentence(n, gold) == [len |-> n, labels |-> [t \in LabelTypes |-> IF t = "ner" THEN gold ELSE <<>>]]

\* Sentence.get_labels(typename)
get_labels(sentence, typename) == sentence.labels[typename]

\* Sentence.remove_labels(typename)
remove_labels(sentence, typename) == [sentence EXCEPT !.labels[typename] = <<>>]

\* Token.get_label(typename, zero_tag_value).value for token t of the sentence:
\* the first token-level label of that type on the token, else the zero tag
TokenLabelValue(sentence, t, typename, zero) ==
  LET ls == get_labels(sentence, typename)
      at == { i \in DOMAIN ls : ls[i].first = t /\ ls[i].last = t }
  IN IF at = {} THEN zero
     ELSE ls[CHOOSE i \in at : \A j \in at : i <= j].value

----------------------------------------------------------------------------
(* DualEncoder._get_state_dict and _init_model_with_state_dict, lines      *)
(* 328-362.  The encoders and the weights are collaborators' state and are *)
(* left out; the Dictionary object is saved and restored as it is, its     *)
(* span_labels attribute included.                                         *)

\* lines 328-340
get_state_dict(m) ==
  [tag_dictionary |-> m.label_dictionary,
   tag_format |-> m.tag_format,
   tag_type |-> m.tag_type]

\* flair.nn.Model._init_model_with_state_dict(state, **kwargs): builds the
\* model by calling the class with the keyword arguments
ModelInitWithStateDict(tag_dictionary, tag_format, tag_type) ==
  DualEncoderInit(tag_dictionary, tag_type, tag_format)

\* lines 342-362
init_model_with_state_dict(state) ==
  ModelInitWithStateDict(state.tag_dictionary, state.tag_format, state.tag_type)

----------------------------------------------------------------------------
(* DualEncoder._get_gold_labels, lines 247-278 *)

\* a variant of lines 259-270 whose BIOES "I-" loop runs up to the last token
\* of the span, as the BIO loop does, and so overwrites the "E-" tag
EncodeSpan_inside_to_end(sentence_labels, label, tag_format) ==
  LET first == label.first
      last == label.last
  IN IF tag_format = fmt_BIOES /\ last - first + 1 = 1
     THEN [sentence_labels EXCEPT ![first] = pre_S \o label.value]
     ELSE [i \in DOMAIN sentence_labels |->
             IF i \in (first + 1)..last THEN pre_I \o label.value
             ELSE IF i = first THEN pre_B \o label.value
             ELSE sentence_labels[i]]

\* lines 259-270: the tags of one sentence after writing one gold span into them
EncodeSpan(sentence_labels, label, tag_format) ==
  LET first == label.first
      last == label.last
  IN IF tag_format = fmt_BIOES
     THEN IF last - first + 1 = 1
          THEN [sentence_labels EXCEPT ![first] = pre_S \o label.value]
          ELSE [i \in DOMAIN sentence_labels |->
                  IF i \in (first + 1)..(last - 1) THEN pre_I \o label.value
                  ELSE IF i = last THEN pre_E \o label.value
                  ELSE IF i = first THEN pre_B \o label.value
                  ELSE sentence_labels[i]]
     ELSE [i \in DOMAIN sentence_labels |->
             IF i \in (first + 1)..last THEN pre_I \o label.value
             ELSE IF i = first THEN pre_B \o label.value
             ELSE sentence_labels[i]]

\* lines 256-270: the loop over the gold labels of one sentence, in order
RECURSIVE EncodeSpans(_, _, _)
EncodeSpans(sentence_labels, labels, tag_format) ==
  IF labels = <<>> THEN sentence_labels
  ELSE EncodeSpans(EncodeSpan(sentence_labels, Head(labels), tag_format),
                   Tail(labels), tag_format)

\* lines 253-278
get_gold_labels(m, sents) ==
  IF m.predict_spans
  THEN [s \in DOMAIN sents |->
          EncodeSpans([i \in 1..sents[s].len |-> str_O],
                      get_labels(sents[s], m.tag_type), m.tag_format)]
  ELSE [s \in DOMAIN sents |->
          [t \in 1..sents[s].len |-> TokenLabelValue(sents[s], t, m.tag_type, str_O)]]

----------------------------------------------------------------------------
(* DualEncoder.forward, lines 88-151.  The two encoders are collaborators: *)
(* what they compute is sampled.  A sample enc gives, for each token       *)
(* position, the winning column of the logits row and its soft-max level;  *)
(* the column is shifted by the sentence's rank in the batch so that two   *)
(* sentences of a batch do not score alike.                                *)

NumColumns(m) == Len(m.idx2verbalized_label)

Encodings(m) ==
  IF NumColumns(m) = 0 THEN { [p \in 1..MaxTokens |-> [col |-> 0, score |-> 100]] }
  ELSE [1..MaxTokens -> [col : 0..(NumColumns(m) - 1), score : ScoreLevels]]

\* torch.max(softmax(logits)) of line 122 for token p of the s-th sentence
ArgMax(m, enc, s, p) ==
  [pred |-> (enc[p].col + (s - 1)) % NumColumns(m), score |-> enc[p].score]

RECURSIVE SumLens(_)
SumLens(sents) == IF sents = <<>> THEN 0 ELSE Head(sents).len + SumLens(Tail(sents))

\* Dictionary.get_idx_for_item: the index, 0 for an unknown item of a
\* dictionary with <unk>, -1 standing for the IndexError it raises otherwise
get_idx_for_item(d, item) ==
  IF HasItem(d, item) THEN item2idx(d, item)
  ELSE IF d.add_unk THEN 0
  ELSE -1

\* lines 107-114: the gold indices of the batch, per sentence
GoldIndices(m, sents) ==
  LET gold == get_gold_labels(m, sents)
  IN [s \in DOMAIN sents |->
        [t \in DOMAIN gold[s] |-> get_idx_for_item(m.label_dictionary, gold[s][t])]]

AllIndices(idx) == UNION { { idx[s][t] : t \in DOMAIN idx[s] } : s \in DOMAIN idx }

NoForward ==
  [outcome |-> "none", error |-> "", kind |-> "none", loss |-> "none",
   predictions |-> <<>>, logits |-> <<>>, token_embeds |-> 0, label_embeds |-> 0]

Raise(r, error) == [r EXCEPT !.outcome = "raised", !.error = error]

\* lines 137-143: the decoded predictions, one list per sentence
DecodedPredictions(m, sents, enc) ==
  [s \in DOMAIN sents |->
     [t \in 1..sents[s].len |->
        <<get_item_for_index(m.label_dictionary, ArgMax(m, enc, s, t).pred),
          ArgMax(m, enc, s, t).score>>]]

\* lines 119-151: what forward returns once the loss is computed
ForwardReturn(r, m, sents, enc, inference, return_features) ==
  IF inference /\ return_features
  THEN [r EXCEPT !.outcome = "returned", !.kind = "loss_predictions_logits",
                 !.predictions = DecodedPredictions(m, sents, enc)]
  ELSE IF return_features
  THEN [r EXCEPT !.outcome = "returned", !.kind = "loss_logits"]
  ELSE [r EXCEPT !.outcome = "returned", !.kind = "loss"]

\* lines 88-151
forward(m, sents, enc, inference, return_features) ==
  LET r1 == [NoForward EXCEPT !.token_embeds = 1]
      r2 == [r1 EXCEPT !.label_embeds = 1]
      r3 == [r2 EXCEPT !.logits =
                [s \in DOMAIN sents |->
                   [t \in 1..sents[s].len |-> ArgMax(m, enc, s, t).pred]]]
      gold == GoldIndices(m, sents)
  IN \* line 96: torch.stack of an empty list of token embeddings
     IF SumLens(sents) = 0 THEN Raise(r1, "RuntimeError")
     \* line 104: torch.stack of an empty list of label embeddings
     ELSE IF NumColumns(m) = 0 THEN Raise(r2, "RuntimeError")
     \* line 109: get_idx_for_item of a tag the dictionary lacks
     ELSE IF -1 \in AllIndices(gold) THEN Raise(r3, "IndexError")
     \* line 117: a target index that is no column of the logits
     ELSE IF \E g \in AllIndices(gold) : g >= NumColumns(m) THEN Raise(r3, "IndexError")
     ELSE ForwardReturn([r3 EXCEPT !.loss = "cross_entropy"], m, sents, enc,
                        inference, return_features)

----------------------------------------------------------------------------
(* DualEncoder.forward_loss, lines 153-159 *)

NoRet ==
  [op |-> "none", outcome |-> "none", error |-> "", kind |-> "none", loss |-> "none",
   count |-> 0, predictions |-> <<>>, token_embeds |-> 0, label_embeds |-> 0,
   inference |-> FALSE, force_token_predictions |-> FALSE, label_name |-> ""]

RetOf(op, f) ==
  [op |-> op, outcome |-> f.outcome, error |-> f.error, kind |-> f.kind,
   loss |-> f.loss, count |-> 0, predictions |-> f.predictions,
   token_embeds |-> f.token_embeds, label_embeds |-> f.label_embeds,
   inference |-> FALSE, force_token_predictions |-> FALSE, label_name |-> ""]

\* forward_loss counting the sentences of the batch instead of their tokens
forward_loss_count_sentences(m, sents, enc) ==
  IF Len(sents) = 0
  THEN [NoRet EXCEPT !.op = "forward_loss", !.outcome = "returned", !.kind = "loss_count",
                     !.loss = "0.0", !.count = 0]
  ELSE LET f == forward(m, sents, enc, FALSE, FALSE)
       IN IF f.outcome = "raised" THEN RetOf("forward_loss", f)
          ELSE [RetOf("forward_loss", f) EXCEPT !.kind = "loss_count",
                                                !.count = Len(sents)]

forward_loss(m, sents, enc) ==
  IF Len(sents) = 0
  THEN [NoRet EXCEPT !.op = "forward_loss", !.outcome = "returned", !.kind = "loss_count",
                     !.loss = "0.0", !.count = 0]
  ELSE LET f == forward(m, sents, enc, FALSE, FALSE)
       IN IF f.outcome = "raised" THEN RetOf("forward_loss", f)
          ELSE [RetOf("forward_loss", f) EXCEPT !.kind = "loss_count",
                                                !.count = SumLens(sents)]

----------------------------------------------------------------------------
(* flair.data.get_spans_from_bio: the decoder predict hands the tags and   *)
(* scores of one sentence to.  Positions are 0-based, as in the code.  A   *)
(* tag weight is kept in tenths (11 for the tag that starts a span, 10     *)
(* for the others).                                                        *)

str_out == <<"O", "-">>

\* bioes_tag[0:2] and bioes_tag[2:]
TagPrefix(tag) == SubSeq(tag, 1, IF Len(tag) < 2 THEN Len(tag) ELSE 2)
TagValue(tag) == SubSeq(tag, 3, Len(tag))

RECURSIVE SumSeq(_)
SumSeq(s) == IF s = <<>> THEN 0 ELSE Head(s) + SumSeq(Tail(s))

\* current_tag_weights[value] += weight, keeping insertion order
AddWeight(weights, value, weight) ==
  IF \E i \in DOMAIN weights : weights[i].value = value
  THEN [i \in DOMAIN weights |->
          IF weights[i].value = value
          THEN [weights[i] EXCEPT !.weight = @ + weight] ELSE weights[i]]
  ELSE Append(weights, [value |-> value, weight |-> weight])

\* sorted(weights, key=weight, reverse=True)[0][0]: the heaviest value, the
\* earliest inserted among equals
HeaviestValue(weights) ==
  LET best == CHOOSE i \in DOMAIN weights :
                /\ \A j \in DOMAIN weights : weights[j].weight <= weights[i].weight
                /\ \A j \in DOMAIN weights :
                     weights[j].weight = weights[i].weight => i <= j
  IN weights[best].value

NoSpanState ==
  [previous_tag |-> str_out, current_span |-> <<>>, current_span_scores |-> <<>>,
   current_tag_weights |-> <<>>, found_spans |-> <<>>]

\* one pass of the loop over the tags, for the tag at position idx
SpanStep(st, idx, tag, score) ==
  LET bioes_tag == IF tag \in {<<>>, str_O, str_underscore} THEN str_out ELSE tag
      in_span == bioes_tag # str_out
      starts_new_span ==
        \/ TagPrefix(bioes_tag) \in {pre_B, pre_S}
        \/ TagPrefix(bioes_tag) = pre_I /\ TagValue(st.previous_tag) # TagValue(bioes_tag)
      closes == (starts_new_span \/ ~in_span) /\ Len(st.current_span) > 0
      st1 == IF closes
             THEN [st EXCEPT
                     !.found_spans = Append(@,
                        [positions |-> st.current_span,
                         score |-> [num |-> SumSeq(st.current_span_scores),
                                    den |-> Len(st.current_span_scores)],
                         value |-> HeaviestValue(st.current_tag_weights)]),
                     !.current_span = <<>>,
                     !.current_span_scores = <<>>,
                     !.current_tag_weights = <<>>]
             ELSE st
      st2 == IF in_span
             THEN [st1 EXCEPT
                     !.current_span = Append(@, idx),
                     !.current_span_scores = Append(@, score),
                     !.current_tag_weights =
                        AddWeight(@, TagValue(bioes_tag),
                                  IF starts_new_span THEN 11 ELSE 10)]
             ELSE st1
  IN [st2 EXCEPT !.previous_tag = bioes_tag]

RECURSIVE SpanLoop(_, _, _, _)
SpanLoop(st, idx, tags, scores) ==
  IF idx >= Len(tags) THEN st
  ELSE SpanLoop(SpanStep(st, idx, tags[idx + 1], scores[idx + 1]), idx + 1, tags, scores)

\* the decoder without the closing dummy tag: a span that reaches the end of the
\* sentence is never appended
get_spans_from_bio_unclosed(bioes_tags, bioes_scores) ==
  SpanLoop(NoSpanState, 0, bioes_tags, bioes_scores).found_spans

\* get_spans_from_bio(bioes_tags, bioes_scores): a dummy "O" closes the last span
get_spans_from_bio(bioes_tags, bioes_scores) ==
  SpanLoop(NoSpanState, 0, Append(bioes_tags, str_O), Append(bioes_scores, 0)).found_spans

----------------------------------------------------------------------------
(* DualEncoder.predict, lines 161-245 *)

\* lines 227-233: the spans decoded from a sentence's predictions, attached
RECURSIVE AddSpanLabels(_, _, _)
AddSpanLabels(sentence, label_name, predicted_spans) ==
  IF predicted_spans = <<>> THEN sentence
  ELSE LET predicted_span == Head(predicted_spans)
           positions == predicted_span.positions
           added == NewLabel(positions[1] + 1, positions[Len(positions)] + 1,
                             predicted_span.value, predicted_span.score)
       IN AddSpanLabels([sentence EXCEPT !.labels[label_name] = Append(@, added)],
                        label_name, Tail(predicted_spans))

\* lines 236-240: the predictions attached token by token, from token t on
RECURSIVE AddTokenLabels(_, _, _, _)
AddTokenLabels(sentence, label_name, sentence_predictions, t) ==
  IF t > sentence.len \/ t > Len(sentence_predictions) THEN sentence
  ELSE LET label == sentence_predictions[t]
       IN IF label[1] \in {str_O, str_underscore}
          THEN AddTokenLabels(sentence, label_name, sentence_predictions, t + 1)
          ELSE AddTokenLabels(
                 [sentence EXCEPT !.labels[label_name] =
                    Append(@, NewLabel(t, t, label[1], [num |-> label[2], den |-> 1]))],
                 label_name, sentence_predictions, t + 1)

\* lines 225-240: the predictions of one sentence attached to it
AttachPredictions(m, sentence, label_name, sentence_predictions, force_token_predictions) ==
  IF m.predict_spans /\ ~force_token_predictions
  THEN AddSpanLabels(sentence, label_name,
         get_spans_from_bio([i \in DOMAIN sentence_predictions |-> sentence_predictions[i][1]],
                            [i \in DOMAIN sentence_predictions |-> sentence_predictions[i][2]]))
  ELSE AddTokenLabels(sentence, label_name, sentence_predictions, 1)

\* the ranks, in order, of the sentences that have tokens (line 197)
RECURSIVE NonEmptyFrom(_, _)
NonEmptyFrom(sents, i) ==
  IF i > Len(sents) THEN <<>>
  ELSE (IF sents[i].len > 0 THEN <<i>> ELSE <<>>) \o NonEmptyFrom(sents, i + 1)

Min(a, b) == IF a < b THEN a ELSE b

\* line 217: "loss, preds = ..." of what forward returned; a lone loss is a
\* 0-d tensor, which cannot be iterated
Unpacks(f) == f.kind # "loss"

\* lines 209-242: the batches from the one starting at rank `from` of kept
RECURSIVE PredictBatches(_, _, _, _, _, _, _, _)
PredictBatches(m, sents, kept, from, enc, args, label_count, logits) ==
  IF from > Len(kept)
  THEN [sentences |-> sents, scored |-> logits,
        ret |-> [NoRet EXCEPT !.op = "predict", !.outcome = "returned",
                              !.kind = IF args.return_loss THEN "loss_count" ELSE "None",
                              !.count = label_count]]
  ELSE
    LET batch == SubSeq(kept, from, Min(Len(kept), from + args.mini_batch_size - 1))
        inBatch == SeqToSet(batch)
        \* lines 214-215
        cleared == [i \in DOMAIN sents |->
                      IF i \in inBatch THEN remove_labels(sents[i], args.label_name)
                      ELSE sents[i]]
        \* line 217
        f == forward(m, [k \in DOMAIN batch |-> cleared[batch[k]]], enc, TRUE, FALSE)
        rank(i) == CHOOSE k \in DOMAIN batch : batch[k] = i
        \* lines 225-240
        attached == [i \in DOMAIN sents |->
                       IF i \in inBatch /\ rank(i) <= Len(f.predictions)
                       THEN AttachPredictions(m, cleared[i], args.label_name,
                                              f.predictions[rank(i)],
                                              args.force_token_predictions)
                       ELSE cleared[i]]
        counted == IF args.return_loss
                   THEN label_count
                        + SumSeq([k \in DOMAIN f.predictions |-> Len(f.predictions[k])])
                   ELSE label_count
    IN IF f.outcome = "raised"
       THEN [sentences |-> cleared, scored |-> f.logits, ret |-> RetOf("predict", f)]
       ELSE IF ~Unpacks(f)
       THEN [sentences |-> cleared, scored |-> f.logits,
             ret |-> [RetOf("predict", f) EXCEPT !.outcome = "raised",
                                                 !.error = "TypeError"]]
       ELSE PredictBatches(m, attached, kept, from + args.mini_batch_size, enc, args,
                           counted, f.logits)

\* lines 182-245; args.label_name is already the tag type when None was given
predict(m, sents, enc, args) ==
  IF Len(sents) = 0
  THEN [sentences |-> sents, scored |-> <<>>,
        ret |-> [NoRet EXCEPT !.op = "predict", !.outcome = "returned",
                              !.kind = "sentences"]]
  ELSE PredictBatches(m, sents, NonEmptyFrom(sents, 1), 1, enc, args, 0, <<>>)

----------------------------------------------------------------------------
(* get_corpus of src/local_corpora.py.  A label_name_map is the set of its *)
(* (key, value) pairs.  The train split of a corpus is, per sentence,      *)
(* whether its text contains "DOCSTART".                                   *)

\* local_corpora.py lines 9-16
WNUT_17_label_name_map ==
  { <<"corporation", "corporation">>,
    <<"creative-work", "creative work">>,
    <<"group", "group">>,
    <<"location", "location">>,
    <<"person", "person">>,
    <<"product", "product">> }

\* local_corpora.py lines 22-22
CONLL_03_label_name_map ==
  { <<"PER", "person">>,
    <<"LOC", "location">>,
    <<"ORG", "organization">>,
    <<"MISC", "miscellaneous">> }

\* local_corpora.py lines 32-51
ONTONOTES_label_name_map ==
  { <<"CARDINAL", "cardinal">>,
    <<"DATE", "date">>,
    <<"EVENT", "event">>,
    <<"FAC", "facility">>,
    <<"GPE", "geographical social political entity">>,
    <<"LANGUAGE", "language">>,
    <<"LAW", "law">>,
    <<"LOC", "location">>,
    <<"MONEY", "money">>,
    <<"NORP", "nationality religion political">>,
    <<"ORDINAL", "ordinal">>,
    <<"ORG", "organization">>,
    <<"PERCENT", "percent">>,
    <<"PERSON", "person">>,
    <<"PRODUCT", "product">>,
    <<"QUANTITY", "quantity">>,
    <<"TIME", "time">>,
    <<"WORK_OF_ART", "work of art">> }

\* local_corpora.py lines 56-123
FEWNERD_fine_label_name_map ==
  { <<"location-GPE", "geographical social political entity">>,
    <<"person-other", "other person">>,
    <<"organization-other", "other organization">>,
    <<"organization-company", "company">>,
    <<"person-artist/author", "author artist">>,
    <<"person-athlete", "athlete">>,
    <<"person-politician", "politician">>,
    <<"building-other", "other building">>,
    <<"organization-sportsteam", "sportsteam">>,
    <<"organization-education", "eduction">>,
    <<"location-other", "other location">>,
    <<"other-biologything", "biology">>,
    <<"location-road/railway/highway/transit", "road railway highway transit">>,
    <<"person-actor", "actor">>,
    <<"product-other", "other product">>,
    <<"event-sportsevent", "sportsevent">>,
    <<"organization-government/governmentagency", "government agency">>,
    <<"location-bodiesofwater", "bodies of water">>,
    <<"organization-media/newspaper", "media newspaper">>,
    <<"art-music", "music">>,
    <<"other-chemicalthing", "chemical">>,
    <<"event-attack/battle/war/militaryconflict", "attack war battle military conflict">>,
    <<"organization-politicalparty", "political party">>,
    <<"art-writtenart", "written art">>,
    <<"other-award", "award">>,
    <<"other-livingthing", "living thing">>,
    <<"event-other", "other event">>,
    <<"art-film", "film">>,
    <<"product-software", "software">>,
    <<"organization-sportsleague", "sportsleague">>,
    <<"other-language", "language">>,
    <<"other-disease", "disease">>,
    <<"organization-showorganization", "show organization">>,
    <<"product-airplane", "airplane">>,
    <<"other-astronomything", "astronomy">>,
    <<"organization-religion", "religion">>,
    <<"product-car", "car">>,
    <<"person-scholar", "scholar">>,
    <<"other-currency", "currency">>,
    <<"person-soldier", "soldier">>,
    <<"location-mountain", "mountain">>,
    <<"art-broadcastprogram", "broadcastprogram">>,
    <<"location-island", "island">>,
    <<"art-other", "other art">>,
    <<"person-director", "director">>,
    <<"product-weapon", "weapon">>,
    <<"other-god", "god">>,
    <<"building-theater", "theater">>,
    <<"other-law", "law">>,
    <<"product-food", "food">>,
    <<"other-medical", "medical">>,
    <<"product-game", "game">>,
    <<"location-park", "park">>,
    <<"product-ship", "ship">>,
    <<"building-sportsfacility", "sportsfacility">>,
    <<"other-educationaldegree", "educational degree">>,
    <<"building-airport", "airport">>,
    <<"building-hospital", "hospital">>,
    <<"product-train", "train">>,
    <<"building-library", "library">>,
    <<"building-hotel", "hotel">>,
    <<"building-restaurant", "restaurant">>,
    <<"event-disaster", "disaster">>,
    <<"event-election", "election">>,
    <<"event-protest", "protest">>,
    <<"art-painting", "painting">> }

\* local_corpora.py lines 127-194
FEWNERD_coarse_label_name_map ==
  { <<"location-GPE", "location">>,
    <<"person-other", "person">>,
    <<"organization-other", "organization">>,
    <<"organization-company", "organization">>,
    <<"person-artist/author", "person">>,
    <<"person-athlete", "person">>,
    <<"person-politician", "person">>,
    <<"building-other", "building">>,
    <<"organization-sportsteam", "organization">>,
    <<"organization-education", "organization">>,
    <<"location-other", "location">>,
    <<"other-biologything", "biology">>,
    <<"location-road/railway/highway/transit", "location">>,
    <<"person-actor", "person">>,
    <<"product-other", "product">>,
    <<"event-sportsevent", "event">>,
    <<"organization-government/governmentagency", "organization">>,
    <<"location-bodiesofwater", "location">>,
    <<"organization-media/newspaper", "organization">>,
    <<"art-music", "art">>,
    <<"other-chemicalthing", "chemical">>,
    <<"event-attack/battle/war/militaryconflict", "event">>,
    <<"organization-politicalparty", "organization">>,
    <<"art-writtenart", "art">>,
    <<"other-award", "award">>,
    <<"other-livingthing", "living thing">>,
    <<"event-other", "event">>,
    <<"art-film", "art">>,
    <<"product-software", "product">>,
    <<"organization-sportsleague", "organization">>,
    <<"other-language", "language">>,
    <<"other-disease", "disease">>,
    <<"organization-showorganization", "organization">>,
    <<"product-airplane", "product">>,
    <<"other-astronomything", "astronomy">>,
    <<"organization-religion", "organization">>,
    <<"product-car", "product">>,
    <<"person-scholar", "person">>,
    <<"other-currency", "currency">>,
    <<"person-soldier", "person">>,
    <<"location-mountain", "location">>,
    <<"art-broadcastprogram", "art">>,
    <<"location-island", "location">>,
    <<"art-other", "art">>,
    <<"person-director", "person">>,
    <<"product-weapon", "product">>,
    <<"other-god", "god">>,
    <<"building-theater", "building">>,
    <<"other-law", "law">>,
    <<"product-food", "product">>,
    <<"other-medical", "medical">>,
    <<"product-game", "product">>,
    <<"location-park", "location">>,
    <<"product-ship", "product">>,
    <<"building-sportsfacility", "building">>,
    <<"other-educationaldegree", "educational degree">>,
    <<"building-airport", "building">>,
    <<"building-hospital", "building">>,
    <<"product-train", "product">>,
    <<"building-library", "building">>,
    <<"building-hotel", "building">>,
    <<"building-restaurant", "building">>,
    <<"event-disaster", "event">>,
    <<"event-election", "event">>,
    <<"event-protest", "event">>,
    <<"art-painting", "art">> }

NoCorpus ==
  [done |-> FALSE, name |-> "", fewnerd_granularity |-> "", docstart |-> <<>>,
   outcome |-> "none", value |-> "none", class |-> "none", label_name_map |-> {},
   train |-> <<>>]

\* a corpus object of the class, its train split the sentences at the indices
ReturnCorpus(class, label_name_map, train) ==
  [NoCorpus EXCEPT !.outcome = "returned", !.value = "corpus", !.class = class,
                   !.label_name_map = label_name_map, !.train = train]

\* lines 24-27: the indices (0-based) of the sentences without "DOCSTART"
RECURSIVE valid_indices(_, _)
valid_indices(docstart, idx) ==
  IF idx >= Len(docstart) THEN <<>>
  ELSE (IF ~docstart[idx + 1] THEN <<idx>> ELSE <<>>) \o valid_indices(docstart, idx + 1)

AllIndicesOf(docstart) == [i \in 1..Len(docstart) |-> i - 1]

\* get_corpus with its final else branch returning nothing instead of raising
get_corpus_silent(name, fewnerd_granularity, docstart) ==
  IF name = "wnut_17"
  THEN ReturnCorpus("WNUT_17", WNUT_17_label_name_map, AllIndicesOf(docstart))
  ELSE IF name = "conll_03"
  THEN ReturnCorpus("CONLL_03", CONLL_03_label_name_map, valid_indices(docstart, 0))
  ELSE IF name = "ontonotes"
  THEN ReturnCorpus("ONTONOTES", ONTONOTES_label_name_map, AllIndicesOf(docstart))
  ELSE IF name = "fewnerd"
  THEN IF fewnerd_granularity = "fine"
       THEN ReturnCorpus("FEWNERD", FEWNERD_fine_label_name_map, AllIndicesOf(docstart))
       ELSE IF fewnerd_granularity = "coarse"
       THEN ReturnCorpus("FEWNERD", FEWNERD_coarse_label_name_map, AllIndicesOf(docstart))
       ELSE [NoCorpus EXCEPT !.outcome = "returned", !.value = "None"]
  ELSE [NoCorpus EXCEPT !.outcome = "returned", !.value = "None"]

\* lines 6-197
get_corpus(name, fewnerd_granularity, docstart) ==
  IF name = "wnut_17"
  THEN ReturnCorpus("WNUT_17", WNUT_17_label_name_map, AllIndicesOf(docstart))
  ELSE IF name = "conll_03"
  THEN ReturnCorpus("CONLL_03", CONLL_03_label_name_map, valid_indices(docstart, 0))
  ELSE IF name = "ontonotes"
  THEN ReturnCorpus("ONTONOTES", ONTONOTES_label_name_map, AllIndicesOf(docstart))
  ELSE IF name = "fewnerd"
  THEN IF fewnerd_granularity = "fine"
       THEN ReturnCorpus("FEWNERD", FEWNERD_fine_label_name_map, AllIndicesOf(docstart))
       ELSE IF fewnerd_granularity = "coarse"
       THEN ReturnCorpus("FEWNERD", FEWNERD_coarse_label_name_map, AllIndicesOf(docstart))
       \* no else branch and no return after line 195: the function ends
       ELSE [NoCorpus EXCEPT !.outcome = "returned", !.value = "None"]
  \* line 197
  ELSE [NoCorpus EXCEPT !.outcome = "raised"]

\* the --corpus and --fewnerd_granularity values get_corpus is called with;
\* "ontonotes" and "" are the script's defaults
CorpusNames == {"wnut_17", "conll_03", "ontonotes", "fewnerd", "", "conll03", "WNUT_17"}
Granularities == {"", "fine", "coarse", "Fine"}

----------------------------------------------------------------------------
(* Inputs *)

LabelPool ==
  {str_X, str_hyphenated, str_spaced, str_O, pre_B \o str_X, pre_I \o str_X, str_underscore}

TagFormats == {fmt_BIO, fmt_BIOES, fmt_bio_lower, fmt_bioes_mixed, fmt_IOB}

\* a Dictionary as the framework builds one: distinct items, "<unk>" first
\* when add_unk is set
DictionariesOver(pool, n) ==
  { [items |-> (IF u THEN <<str_unk>> ELSE <<>>) \o s, add_unk |-> u, span_labels |-> sp] :
      s \in InjSeqs(pool, n), u \in BOOLEAN, sp \in BOOLEAN }

TagDictionaries == DictionariesOver(LabelPool, MaxLabels)

\* the dictionaries the scorer and predict are exercised with
ScorerDictionaries ==
  { [items |-> <<str_X>>, add_unk |-> FALSE, span_labels |-> TRUE],
    [items |-> <<>>, add_unk |-> FALSE, span_labels |-> TRUE],
    [items |-> <<str_unk, str_X, str_hyphenated>>, add_unk |-> TRUE, span_labels |-> TRUE],
    [items |-> <<str_O, pre_B \o str_X, pre_I \o str_X>>, add_unk |-> FALSE,
     span_labels |-> FALSE],
    [items |-> <<str_underscore, str_O, pre_B \o str_X>>, add_unk |-> FALSE,
     span_labels |-> FALSE],
    [items |-> <<str_unk, str_X>>, add_unk |-> TRUE, span_labels |-> FALSE] }

ScorerFormats == {fmt_BIO, fmt_BIOES}

GoldValues == {str_X, pre_B \o str_X}

\* the sentences of lo..MaxTokens tokens with at most one gold label: a span
\* for a span-level model, a token label otherwise
SentencesOf(spans, lo) ==
  UNION { {NewSentence(n, <<>>)} \cup
          { NewSentence(n, <<NewLabel(ab[1], ab[2], v, GoldScore)>>) :
              ab \in { x \in (1..n) \X (1..n) : x[1] <= x[2] /\ (spans \/ x[1] = x[2]) },
              v \in GoldValues } :
          n \in lo..MaxTokens }

\* the span-level dictionaries _get_gold_labels is exercised with
GoldDictionaries ==
  { [items |-> <<str_X>>, add_unk |-> FALSE, span_labels |-> TRUE],
    [items |-> <<str_unk, str_X, str_Y>>, add_unk |-> TRUE, span_labels |-> TRUE],
    [items |-> <<str_hyphenated, str_Y>>, add_unk |-> FALSE, span_labels |-> TRUE] }

\* the values of the gold spans
GoldSpanValues == {str_X, str_Y}

\* the sentences of 1..MaxGoldTokens tokens with up to MaxGoldSpans gold
\* spans, each over contiguous tokens of the sentence; spans may overlap
GoldSentences ==
  UNION { { NewSentence(n, spans) :
              spans \in SeqsOf({ NewLabel(ab[1], ab[2], v, GoldScore) :
                                   ab \in { x \in (1..n) \X (1..n) : x[1] <= x[2] },
                                   v \in GoldSpanValues },
                               0, MaxGoldSpans) } :
          n \in 1..MaxGoldTokens }

PredictArgs(m) ==
  [mini_batch_size : {1, 32},
   label_name : {m.tag_type, "predicted"},
   return_loss : BOOLEAN,
   force_token_predictions : BOOLEAN]

\* the tags get_spans_from_bio is exercised with
DecodeTags ==
  {str_O, pre_S \o str_X, pre_B \o str_X, pre_I \o str_X,
   pre_B \o str_Y, pre_I \o str_Y, pre_E \o str_Y}

DecodeScores(n) ==
  { [i \in 1..n |-> 100], [i \in 1..n |-> IF i % 2 = 1 THEN 50 ELSE 100] }

NoArgs == [tag_dictionary |-> NoDictionary, tag_format |-> <<>>]

NoDecode == [done |-> FALSE, tags |-> <<>>, scores |-> <<>>, spans |-> <<>>]

NoGold == [done |-> FALSE, tags |-> <<>>]

NoReload == [done |-> FALSE, state |-> [tag_dictionary |-> NoDictionary, tag_format |-> <<>>, tag_type |-> ""], model |-> NoModel]

----------------------------------------------------------------------------
(* The state machine: a model is constructed, then one operation is called *)
(* on it.  given holds the constructor's arguments, sentences the          *)
(* sentences handed to the operation as it left them, ret what it          *)
(* returned or raised, scored the arg-max columns of the logits the last   *)
(* call of forward computed.                                               *)

Init ==
  /\ given = NoArgs
  /\ model = NoModel
  /\ sentences = <<>>
  /\ ret = NoRet
  /\ scored = <<>>
  /\ decode = NoDecode
  /\ gold_labels = NoGold
  /\ reloaded = NoReload
  /\ corpus = NoCorpus

\* DualEncoder(token_encoder, label_encoder, tag_dictionary, tag_type, tag_format)
Construct(tag_dictionary, tag_format) ==
  /\ model.status = "none"
  /\ given' = [tag_dictionary |-> tag_dictionary, tag_format |-> tag_format]
  /\ model' = DualEncoderInit(tag_dictionary, "ner", tag_format)
  /\ UNCHANGED <<sentences, ret, scored, decode, gold_labels, reloaded, corpus>>

Callable == model.status = "ok" /\ ret.op = "none" /\ ~decode.done

\* model.forward_loss(sentences)
ForwardLoss ==
  /\ Callable
  /\ \E sents \in SeqsOf(SentencesOf(model.predict_spans, 1), 0, MaxSentences) :
       /\ sentences' = sents
       /\ ret' = forward_loss(model, sents, CHOOSE enc \in Encodings(model) : TRUE)
  /\ UNCHANGED <<given, model, scored, decode, gold_labels, reloaded, corpus>>

\* model.forward(sentences, inference, return_features)
Forward ==
  /\ Callable
  /\ \E sents \in SeqsOf(SentencesOf(model.predict_spans, 1), 0, MaxSentences),
        enc \in Encodings(model), inference \in BOOLEAN, return_features \in BOOLEAN :
       LET f == forward(model, sents, enc, inference, return_features)
       IN /\ sentences' = sents
          /\ ret' = [RetOf("forward", f) EXCEPT !.inference = inference]
          /\ scored' = f.logits
  /\ UNCHANGED <<given, model, decode, gold_labels, reloaded, corpus>>

\* model.predict(sentences, mini_batch_size, label_name, return_loss,
\*               force_token_predictions)
Predict ==
  /\ Callable
  /\ \E sents \in SeqsOf(SentencesOf(model.predict_spans, 0), 0, MaxSentences),
        enc \in Encodings(model), args \in PredictArgs(model) :
       LET p == predict(model, sents, enc, args)
       IN /\ sentences' = p.sentences
          /\ ret' = [p.ret EXCEPT !.force_token_predictions = args.force_token_predictions,
                                  !.label_name = args.label_name]
          /\ scored' = p.scored
  /\ UNCHANGED <<given, model, decode, gold_labels, reloaded, corpus>>

\* get_spans_from_bio(bioes_tags, bioes_scores)
DecodeSpans ==
  /\ ~decode.done
  /\ model.status = "none"
  /\ \E n \in 0..MaxTags :
       \E tags \in [1..n -> DecodeTags], scores \in DecodeScores(n) :
         decode' = [done |-> TRUE, tags |-> tags, scores |-> scores,
                    spans |-> get_spans_from_bio(tags, scores)]
  /\ UNCHANGED <<given, model, sentences, ret, scored, gold_labels, reloaded, corpus>>

\* construction alone, over every tag dictionary and format of the bounds
BuildNext == \E d \in TagDictionaries, f \in TagFormats : Construct(d, f)

SpecBuild == Init /\ [][BuildNext]_vars

ConstructScorer == \E d \in ScorerDictionaries, f \in ScorerFormats : Construct(d, f)

\* construction, then forward_loss
LossNext == ConstructScorer \/ ForwardLoss

SpecLoss == Init /\ [][LossNext]_vars

\* the decoder alone, on every tag sequence of the bounds
SpecDecode == Init /\ [][DecodeSpans]_vars

\* construction, then one of forward_loss, forward and predict
Next == ConstructScorer \/ ForwardLoss \/ Forward \/ Predict

Spec == Init /\ [][Next]_vars

\* corpus = get_corpus(args.corpus, args.fewnerd_granularity)
GetCorpus ==
  /\ ~corpus.done
  /\ \E name \in CorpusNames, g \in Granularities, docstart \in SeqsOf(BOOLEAN, 0, MaxTrain) :
       corpus' = [get_corpus(name, g, docstart) EXCEPT
                    !.done = TRUE, !.name = name, !.fewnerd_granularity = g,
                    !.docstart = docstart]
  /\ UNCHANGED <<given, model, sentences, ret, scored, decode, gold_labels, reloaded>>

\* get_corpus alone, on every corpus name and granularity of the inputs
SpecCorpus == Init /\ [][GetCorpus]_vars

ConstructGold == \E d \in GoldDictionaries, f \in ScorerFormats : Construct(d, f)

\* model._get_gold_labels([sentence])
GetGoldLabels ==
  /\ model.status = "ok"
  /\ ~gold_labels.done
  /\ \E sentence \in GoldSentences :
       /\ sentences' = <<sentence>>
       /\ gold_labels' = [done |-> TRUE, tags |-> get_gold_labels(model, <<sentence>>)]
  /\ UNCHANGED <<given, model, ret, scored, decode, reloaded, corpus>>

\* construction from a span-level dictionary, then _get_gold_labels
GoldNext == ConstructGold \/ GetGoldLabels

SpecGold == Init /\ [][GoldNext]_vars

\* DualEncoder._init_model_with_state_dict(model._get_state_dict())
SaveLoad ==
  /\ model.status = "ok"
  /\ ~reloaded.done
  /\ LET state == get_state_dict(model)
     IN reloaded' = [done |-> TRUE, state |-> state,
                     model |-> init_model_with_state_dict(state)]
  /\ UNCHANGED <<given, model, sentences, ret, scored, decode, gold_labels, corpus>>

\* construction over every tag dictionary and format of the bounds, then a
\* save and a load
SaveNext == BuildNext \/ SaveLoad

SpecSave == Init /\ [][SaveNext]_vars

----------------------------------------------------------------------------
(* Properties of the label space (SpecBuild) *)

Constructed == model.status = "ok"

\* the items of the given tag dictionary other than "<unk>"
BaseLabels == SeqToSet(given.tag_dictionary.items) \ {str_unk}

\* C1: for every span-level tag dictionary, the empty one and the one holding
\* only "<unk>" included, the expanded dictionary has 1 + k * |labels| items,
\* k = 4 for BIOES and k = 2 for BIO.
C1_ExpandedSize ==
  (Constructed /\ given.tag_dictionary.span_labels) =>
     model.tagset_size =
       1 + (IF model.tag_format = fmt_BIOES THEN 4 ELSE 2) * Cardinality(BaseLabels)

\* C2: the indices that carry a verbalized phrase are the indices of the label
\* dictionary, in order: the logits have tagset_size columns and column j is
\* tag j.
C2_ColumnsAreTags ==
  Constructed =>
     /\ Len(model.idx2verbalized_label) = model.tagset_size
     /\ \A j \in DOMAIN model.idx2verbalized_label :
          model.idx2verbalized_label[j].idx = j - 1

\* C3: after construction from any tag dictionary, span-level or flat, the
\* label dictionary contains "O".
C3_HasOutsideTag == Constructed => HasItem(model.label_dictionary, str_O)

\* the tags a base label expands to under a format
ExpandedTags(label, tag_format) ==
  { prefix \o label :
      prefix \in (IF tag_format = fmt_BIOES THEN {pre_S, pre_B, pre_E, pre_I}
                  ELSE {pre_B, pre_I}) }

\* the phrase idx2verbalized_label holds for a tag, <<>> when it holds none
PhraseOf(m, tag) ==
  LET at == { j \in DOMAIN m.idx2verbalized_label :
                /\ m.idx2verbalized_label[j].idx < DictLen(m.label_dictionary)
                /\ get_item_for_index(m.label_dictionary,
                                      m.idx2verbalized_label[j].idx) = tag }
  IN IF at = {} THEN <<>> ELSE m.idx2verbalized_label[CHOOSE j \in at : TRUE].phrase

\* a phrase without its first word
StripPrefixWord(phrase) == SubSeq(phrase, FindChar(phrase, " ", 1) + 1, Len(phrase))

\* C4: for every base label, hyphenated and spaced ones included, and both
\* formats, each expanded tag of the label has a phrase, and the phrase without
\* its prefix word is the base label.
C4_VerbalizeRoundTrip ==
  (Constructed /\ given.tag_dictionary.span_labels) =>
     \A label \in BaseLabels :
       \A tag \in ExpandedTags(label, model.tag_format) :
         /\ HasItem(model.label_dictionary, tag)
         /\ PhraseOf(model, tag) # <<>>
         /\ StripPrefixWord(PhraseOf(model, tag)) = label

\* C5: a constructor call whose tag_format is, upper-cased, neither "BIO" nor
\* "BIOES" is rejected, for a span-level and for a flat tag dictionary alike.
C5_RejectsUnsupportedFormat ==
  (given # NoArgs /\ Upper(given.tag_format) \notin {fmt_BIO, fmt_BIOES}) =>
     model.status = "rejected"

----------------------------------------------------------------------------
(* Properties of forward_loss (SpecLoss) *)

\* the tokens of a batch, counted one by one
TokensOf(sents) == UNION { { <<s, t>> : t \in 1..sents[s].len } : s \in DOMAIN sents }

\* C6: forward_loss of an empty list returns loss 0.0 and count 0 without
\* raising and without a call of either encoder; when it returns for a
\* non-empty batch, the count is the number of tokens of the batch.
C6_ForwardLossCount ==
  ret.op = "forward_loss" =>
     /\ Len(sentences) = 0 =>
          /\ ret.outcome = "returned"
          /\ ret.loss = "0.0"
          /\ ret.count = 0
          /\ ret.token_embeds = 0
          /\ ret.label_embeds = 0
     /\ (Len(sentences) > 0 /\ ret.outcome = "returned") =>
          ret.count = Cardinality(TokensOf(sentences))

\* forward_loss has returned for a batch of two sentences of three tokens
C6_Witness ==
  /\ ret.op = "forward_loss"
  /\ ret.outcome = "returned"
  /\ Len(sentences) = 2
  /\ ret.count = 3

----------------------------------------------------------------------------
(* Properties of predict and forward (Spec) *)

\* predict has run, and the scorer computed logits and loss for its last batch
Scored == ret.op = "predict" /\ ret.loss = "cross_entropy"

\* the sentence of the caller's list the k-th row of scored belongs to
ScoredSentence(k) == sentences[NonEmptyFrom(sentences, 1)[k]]

\* the tag the scorer's arg-max gives token t of the k-th scored sentence
PredictedTag(k, t) == get_item_for_index(model.label_dictionary, scored[k][t])

\* the labels of the predicted type that cover exactly the tokens a..b
LabelsAt(sentence, a, b) ==
  LET ls == get_labels(sentence, ret.label_name)
  IN { i \in DOMAIN ls : ls[i].first = a /\ ls[i].last = b }

\* C7: in token-level output mode of predict a token whose predicted tag is "O"
\* or "_" gets no label, and a token with any other predicted tag gets exactly
\* one label, carrying that tag.
C7_TokenLevelLabels ==
  (Scored /\ (~model.predict_spans \/ ret.force_token_predictions)) =>
     \A k \in DOMAIN scored : \A t \in DOMAIN scored[k] :
       LET at == LabelsAt(ScoredSentence(k), t, t)
           ls == get_labels(ScoredSentence(k), ret.label_name)
       IN IF PredictedTag(k, t) \in {str_O, str_underscore}
          THEN at = {}
          ELSE /\ Cardinality(at) = 1
               /\ \A i \in at : ls[i].value = PredictedTag(k, t)

\* the maximal runs B-v I-v ... I-v of a tag sequence, as (first, last, v),
\* positions 1-based
BioRuns(tags) ==
  { r \in (DOMAIN tags) \X (DOMAIN tags) \X { TagValue(tags[i]) : i \in DOMAIN tags } :
      /\ r[1] <= r[2]
      /\ tags[r[1]] = pre_B \o r[3]
      /\ \A j \in (r[1] + 1)..r[2] : tags[j] = pre_I \o r[3]
      /\ (r[2] = Len(tags) \/ tags[r[2] + 1] # pre_I \o r[3]) }

\* C8: predict on a BIO model attaches to a sentence one span per maximal run
\* B-label I-label ... of its predicted tags, on exactly the tokens of the run
\* and with the run's label, and no span over a token predicted "O".
C8_BioSpansAttached ==
  (Scored /\ model.predict_spans /\ ~ret.force_token_predictions
     /\ model.tag_format = fmt_BIO) =>
     \A k \in DOMAIN scored :
       LET tags == [t \in DOMAIN scored[k] |-> PredictedTag(k, t)]
           ls == get_labels(ScoredSentence(k), ret.label_name)
       IN /\ \A r \in BioRuns(tags) :
               /\ Cardinality(LabelsAt(ScoredSentence(k), r[1], r[2])) = 1
               /\ \A i \in LabelsAt(ScoredSentence(k), r[1], r[2]) : ls[i].value = r[3]
          /\ \A i \in DOMAIN ls : \A t \in ls[i].first..ls[i].last : tags[t] # str_O

\* C10: forward in inference mode returns one prediction list per sentence, in
\* order, each with one (tag, score) pair per token of its sentence, the tag
\* being the dictionary item of that token's arg-max.
C10_InferenceReturnsPredictions ==
  (ret.op = "forward" /\ ret.inference /\ ret.outcome = "returned") =>
     /\ Len(ret.predictions) = Len(sentences)
     /\ \A s \in DOMAIN ret.predictions :
          /\ Len(ret.predictions[s]) = sentences[s].len
          /\ \A t \in DOMAIN ret.predictions[s] :
               /\ HasItem(model.label_dictionary, ret.predictions[s][t][1])
               /\ ret.predictions[s][t][1] =
                    get_item_for_index(model.label_dictionary, scored[s][t])
               /\ ret.predictions[s][t][2] \in ScoreLevels

\* C12: predict on a non-empty list of non-empty sentences completes without
\* raising, having obtained a (loss, predictions) pair from the scorer, and
\* leaves on every sentence, as labels of label_name, only labels that lie
\* within the sentence.
C12_PredictCompletes ==
  (/\ ret.op = "predict"
   /\ Len(sentences) >= 1
   /\ \A s \in DOMAIN sentences : sentences[s].len >= 1) =>
     /\ ret.outcome = "returned"
     /\ ret.error = "none"
     /\ \A s \in DOMAIN sentences :
          LET ls == get_labels(sentences[s], ret.label_name)
          IN \A i \in DOMAIN ls : 1 <= ls[i].first /\ ls[i].last <= sentences[s].len

----------------------------------------------------------------------------
(* Properties of the span decoder (SpecDecode) *)

\* the single-token spans and the runs B-v I-v ... E-v of a tag sequence, as
\* (first, last, v), positions 0-based
BioesSingles(tags) ==
  { <<i - 1, i - 1, TagValue(tags[i])>> : i \in { j \in DOMAIN tags : TagPrefix(tags[j]) = pre_S } }

BioesRuns(tags) ==
  { r \in (0..(Len(tags) - 1)) \X (0..(Len(tags) - 1)) \X { TagValue(tags[i]) : i \in DOMAIN tags } :
      /\ r[1] < r[2]
      /\ tags[r[1] + 1] = pre_B \o r[3]
      /\ tags[r[2] + 1] = pre_E \o r[3]
      /\ \A j \in (r[1] + 1)..(r[2] - 1) : tags[j + 1] = pre_I \o r[3] }

\* a sequence made of "O", S-tags and runs B-v I-v ... E-v only
WellFormedBioes(tags) ==
  \A i \in DOMAIN tags :
     \/ tags[i] = str_O
     \/ TagPrefix(tags[i]) = pre_S
     \/ \E r \in BioesRuns(tags) : r[1] <= i - 1 /\ i - 1 <= r[2]

SpanTriples(spans) ==
  { <<spans[i].positions[1], spans[i].positions[Len(spans[i].positions)], spans[i].value>> :
      i \in DOMAIN spans }

Contiguous(positions) ==
  \A i \in 1..(Len(positions) - 1) : positions[i + 1] = positions[i] + 1

BioesExample == <<pre_S \o str_X, str_O, pre_B \o str_Y, pre_I \o str_Y, pre_E \o str_Y>>

\* C9: decoding a BIOES tag sequence gives one single-token span for each
\* S-label tag and one span for each run B-label I-label ... E-label, and no
\* other; S-X O B-Y I-Y E-Y gives the span 0 "X" and the span 2-4 "Y".
C9_BioesSpans ==
  (decode.done /\ WellFormedBioes(decode.tags)) =>
     /\ SpanTriples(decode.spans) = BioesSingles(decode.tags) \cup BioesRuns(decode.tags)
     /\ Len(decode.spans) = Cardinality(SpanTriples(decode.spans))
     /\ \A i \in DOMAIN decode.spans : Contiguous(decode.spans[i].positions)
     /\ decode.tags = BioesExample =>
          /\ Len(decode.spans) = 2
          /\ decode.spans[1].positions = <<0>> /\ decode.spans[1].value = str_X
          /\ decode.spans[2].positions = <<2, 3, 4>> /\ decode.spans[2].value = str_Y

\* the decoder has run on S-X O B-Y I-Y E-Y and found two spans
C9_Witness ==
  /\ decode.done
  /\ decode.tags = BioesExample
  /\ Len(decode.spans) = 2

----------------------------------------------------------------------------
(* Properties of _get_gold_labels (SpecGold) *)

\* the gold spans of the sentence handed to _get_gold_labels
GoldSpans == get_labels(sentences[1], model.tag_type)

\* no token of the sentence lies in two gold spans
NonOverlapping(ls) ==
  \A i, j \in DOMAIN ls :
     i # j => (ls[i].last < ls[j].first \/ ls[j].last < ls[i].first)

\* the tags on the tokens of a span encode it well-formed in the format
WellEncoded(tags, label, tag_format) ==
  IF tag_format = fmt_BIOES
  THEN IF label.first = label.last
       THEN tags[label.first] = pre_S \o label.value
       ELSE /\ tags[label.first] = pre_B \o label.value
            /\ tags[label.last] = pre_E \o label.value
            /\ \A t \in (label.first + 1)..(label.last - 1) : tags[t] = pre_I \o label.value
  ELSE /\ tags[label.first] = pre_B \o label.value
       /\ \A t \in (label.first + 1)..label.last : tags[t] = pre_I \o label.value

\* C13: in span mode, for a sentence whose gold spans do not overlap,
\* _get_gold_labels gives one tag per token, "O" on every token outside all
\* spans, and each span encoded well-formed in the model's format (BIOES:
\* S- alone, or B- ... I- ... E-; BIO: B- then I-); the tags of a span whose
\* label is a label of the input tag dictionary are items of the expanded
\* label dictionary.
C13_GoldSpanEncoding ==
  (gold_labels.done /\ model.predict_spans /\ NonOverlapping(GoldSpans)) =>
     LET tags == gold_labels.tags[1]
     IN /\ Len(gold_labels.tags) = 1
        /\ Len(tags) = sentences[1].len
        /\ \A t \in 1..sentences[1].len :
             (\A i \in DOMAIN GoldSpans : t \notin GoldSpans[i].first..GoldSpans[i].last)
                => tags[t] = str_O
        /\ \A i \in DOMAIN GoldSpans :
             /\ WellEncoded(tags, GoldSpans[i], model.tag_format)
             /\ GoldSpans[i].value \in BaseLabels =>
                  \A t \in GoldSpans[i].first..GoldSpans[i].last :
                     HasItem(model.label_dictionary, tags[t])

\* a BIOES model has encoded a four-token sentence with the spans 1-3 and 4-4
\* of label X, which is a label of its dictionary, as B-X I-X E-X S-X
C13_Witness ==
  /\ gold_labels.done
  /\ model.predict_spans
  /\ model.tag_format = fmt_BIOES
  /\ str_X \in BaseLabels
  /\ sentences[1].len = 4
  /\ GoldSpans = <<NewLabel(1, 3, str_X, GoldScore), NewLabel(4, 4, str_X, GoldScore)>>
  /\ gold_labels.tags[1] = <<pre_B \o str_X, pre_I \o str_X, pre_E \o str_X, pre_S \o str_X>>

----------------------------------------------------------------------------
(* Properties of saving and loading (SpecSave) *)

\* C14: a model rebuilt from the saved state of a model that was built from a
\* span-level tag dictionary has the same label dictionary items in the same
\* order, the same verbalization map, the same tag_format and the same
\* predict_spans flag as the model that was saved.
C14_SaveLoadRoundTrip ==
  (reloaded.done /\ given.tag_dictionary.span_labels) =>
     /\ reloaded.model.status = "ok"
     /\ get_items(reloaded.model.label_dictionary) = get_items(model.label_dictionary)
     /\ reloaded.model.idx2verbalized_label = model.idx2verbalized_label
     /\ reloaded.model.tag_format = model.tag_format
     /\ reloaded.model.predict_spans = model.predict_spans

----------------------------------------------------------------------------
(* Properties of get_corpus (SpecCorpus) *)

KnownCorpora == {"wnut_17", "conll_03", "ontonotes", "fewnerd"}

\* C11: get_corpus with a corpus name other than "wnut_17", "conll_03",
\* "ontonotes" and "fewnerd" raises, whatever the granularity, and constructs
\* no corpus.
C11_UnknownCorpusRaises ==
  (corpus.done /\ corpus.name \notin KnownCorpora) =>
     /\ corpus.outcome = "raised"
     /\ corpus.class = "none"
     /\ corpus.value = "none"

\* get_corpus has raised for the unknown name "conll03" with granularity "fine"
C11_Witness ==
  /\ corpus.done
  /\ corpus.name = "conll03"
  /\ corpus.fewnerd_granularity = "fine"
  /\ corpus.outcome = "raised"

\* C15: for every corpus name and granularity get_corpus returns a corpus or
\* raises; it never returns without a corpus.
C15_CorpusOrException ==
  corpus.done =>
     \/ corpus.outcome = "raised"
     \/ corpus.outcome = "returned" /\ corpus.value = "corpus" /\ corpus.class # "none"

====
